---- MODULE Spec2Model ----
(***************************************************************************)
(* Model of experimental/c-cpp/build_generator.py: the build-heuristic     *)
(* detectors, the registry loop match_build_heuristics_on_folder, the      *)
(* script materialisation (wrap_build_script and                           *)
(* convert_build_heuristics_to_scripts) and raw_build_evaluation.          *)
(*                                                                         *)
(* Text.  A Python string is modelled as a sequence of tokens, each token  *)
(* a piece of the string; concatenation of strings is \o.  The texts the   *)
(* model draws are tokenised so that every substring the code searches for *)
(* ('/', '.c', 'test', 'example', 'option(', ' ', the newline, '.', '..')  *)
(* is a token of its own wherever it occurs, so that split, endswith, `in` *)
(* and basename are computed on tokens exactly as Python computes them on  *)
(* characters.  NL is the newline token.                                   *)
(***************************************************************************)
EXTENDS Integers, Sequences, FiniteSets, TLC

NL == "\n"

\* ------------------------------------------------------------------ text

RECURSIVE Split(_, _)
\* str.split(sep): the pieces between the occurrences of sep (at least one piece).
Split(s, sep) ==
  IF \A i \in 1..Len(s) : s[i] # sep
  THEN << s >>
  ELSE LET i == CHOOSE n \in 1..Len(s) : s[n] = sep /\ \A j \in 1..(n - 1) : s[j] # sep
       IN  << SubSeq(s, 1, i - 1) >> \o Split(SubSeq(s, i + 1, Len(s)), sep)

RECURSIVE Join(_, _)
\* sep.join(parts)
Join(parts, sep) ==
  IF Len(parts) = 0 THEN << >>
  ELSE IF Len(parts) = 1 THEN parts[1]
  ELSE parts[1] \o << sep >> \o Join(Tail(parts), sep)

\* s.endswith(suffix)
EndsWith(s, suffix) ==
  /\ Len(s) >= Len(suffix)
  /\ SubSeq(s, Len(s) - Len(suffix) + 1, Len(s)) = suffix

\* s.startswith(prefix)
StartsWith(s, prefix) ==
  /\ Len(s) >= Len(prefix)
  /\ SubSeq(s, 1, Len(prefix)) = prefix

\* needle in s, for a needle that is one token
Contains(s, needle) == \E i \in 1..Len(s) : s[i] = needle

\* os.path.basename(p): what follows the last '/'
Basename(p) == LET parts == Split(p, "/") IN parts[Len(parts)]

Digit(d) == << "0", "1", "2", "3", "4", "5", "6", "7", "8", "9" >>[d + 1]

RECURSIVE Str(_)
\* str(n) for n >= 0: the decimal digits
Str(n) == IF n < 10 THEN << Digit(n) >> ELSE Str(n \div 10) \o << Digit(n % 10) >>

\* the sequences that enumerate the finite set S once each (an iteration order)
Orders(S) ==
  { s \in [1..Cardinality(S) -> S] : \A i, j \in 1..Cardinality(S) : s[i] = s[j] => i = j }

RECURSIVE Flatten(_)
\* the concatenation of a sequence of sequences
Flatten(ss) == IF Len(ss) = 0 THEN << >> ELSE ss[1] \o Flatten(Tail(ss))

\* ------------------------------------------------------------- detectors

\* AutoBuildContainer: list_of_commands and heuristic_id
AutoBuildContainer(cmds, id) == [list_of_commands |-> cmds, heuristic_id |-> id]

\* the registry's detectors in registration order (all_checks)
all_checks ==
  << "AutogenConfScanner", "PureCFileCompiler", "PureCFileCompilerFind",
     "PureMakefileScanner", "PureMakefileScannerWithPThread",
     "PureMakefileScannerWithSubstitutions", "AutogenScanner",
     "AutoRefConfScanner", "CMakeScanner", "RawMake" >>

Detectors == { all_checks[i] : i \in 1..Len(all_checks) }

\* the tracked signatures each __init__ puts in matches_found
Signatures(cls) ==
  CASE cls \in {"PureCFileCompiler", "PureCFileCompilerFind"} -> { << ".c" >> }
    [] cls \in {"PureMakefileScanner", "PureMakefileScannerWithPThread",
                "PureMakefileScannerWithSubstitutions", "RawMake"} -> { << "Makefile" >> }
    [] cls = "AutoRefConfScanner" -> { << "configure.ac" >>, << "Makefile", ".am" >> }
    [] cls \in {"AutogenScanner", "AutogenConfScanner"} ->
         { << "configure.ac" >>, << "Makefile" >> }
    [] cls = "CMakeScanner" -> { << "CMakeLists.txt" >> }

\* matches_found as __init__ leaves it: every tracked signature with an empty list
InitMatchesFound(cls) == [key \in Signatures(cls) |-> << >>]

\* the name property of each detector
name(cls) ==
  CASE cls = "PureCFileCompiler" -> "pureCFileCompiler"
    [] cls = "PureCFileCompilerFind" -> "pureCFileCompilerFind"
    [] cls \in {"PureMakefileScanner", "PureMakefileScannerWithPThread"} -> "make"
    [] cls = "PureMakefileScannerWithSubstitutions" -> "makeWithSubstitutions"
    [] cls \in {"AutoRefConfScanner", "AutogenScanner"} -> "autogen"
    [] cls = "RawMake" -> "RawMake"
    [] cls = "AutogenConfScanner" -> "autogen-ConfMake"
    [] cls = "CMakeScanner" -> "cmake"

\* AutoBuildBase.match_files: a path is appended to the list of the signature its
\* basename equals, in file-list order
BaseMatchFiles(mf, file_list) ==
  [key \in DOMAIN mf |-> mf[key] \o SelectSeq(file_list, LAMBDA fi : Basename(fi) = key)]

\* '/'.join(fi.split('/')[1:])
PathToAdd(fi) == Join(Tail(Split(fi, "/")), "/")

\* the filter of PureCFileCompiler.match_files
StrictAccepts(fi, key) ==
  EndsWith(fi, key) /\ ~Contains(fi, "test") /\ ~Contains(fi, "example")

\* PureCFileCompiler.match_files
PureCMatchFiles(mf, file_list) ==
  [key \in DOMAIN mf |->
     LET accepted == SelectSeq(file_list, LAMBDA fi : StrictAccepts(fi, key))
     IN  mf[key] \o [i \in 1..Len(accepted) |-> PathToAdd(accepted[i])]]

\* PureCFileCompilerFind.match_files
PureCFindMatchFiles(mf, file_list) ==
  [key \in DOMAIN mf |-> mf[key] \o SelectSeq(file_list, LAMBDA fi : EndsWith(fi, key))]

\* the option name CMakeScanner.match_files takes from a line holding 'option('
OptionOfLine(line) == Split(Split(line, "option(")[2], " ")[1]

\* the option names one file's content adds to cmake_options
OptionsOfContent(text) ==
  LET lines == Split(text, NL)
  IN  { OptionOfLine(lines[i]) : i \in { n \in 1..Len(lines) : Contains(lines[n], "option(") } }

\* the files CMakeScanner.match_files opens: those whose basename is a signature
CMakeOpened(mf, file_list) ==
  { file_list[i] : i \in { n \in 1..Len(file_list) : Basename(file_list[n]) \in DOMAIN mf } }

\* cmake_options after CMakeScanner.match_files
CMakeHarvest(opts, mf, file_list, contents) ==
  opts \cup UNION { OptionsOfContent(contents[fi]) : fi \in CMakeOpened(mf, file_list) }

\* match_files of a detector, on its matches_found
MatchFilesOf(cls, mf, file_list) ==
  CASE cls = "PureCFileCompiler" -> PureCMatchFiles(mf, file_list)
    [] cls = "PureCFileCompilerFind" -> PureCFindMatchFiles(mf, file_list)
    [] OTHER -> BaseMatchFiles(mf, file_list)

\* AutoBuildBase.is_matched: the loop runs over the dict itself, that is over its
\* keys, and tests the length of each key
is_matched(mf) == \A matches \in DOMAIN mf : Len(matches) # 0

\* ------------------------------------------------------- steps_to_build

\* PureCFileCompiler.steps_to_build
PureCSteps(mf) ==
  << AutoBuildContainer(
       << << "for file in \"" >> \o Join(mf[<< ".c" >>], " ")
          \o << "\"; do", NL, "  $CC $CFLAGS -c ${file}", NL, "done", NL, NL,
                "rm -f ./test*.o", NL, "llvm-ar rcs libfuzz.a *.o", NL >> >>,
       << name("PureCFileCompiler"), "1" >>) >>

\* PureCFileCompilerFind.steps_to_build
PureCFindSteps ==
  << AutoBuildContainer(
       << << "find . -name \"*.c\" -exec $CC $CFLAGS -I./src -c {} \\;", NL,
             "find . -name \"*.o\" -exec cp {} . \\;", NL, NL,
             "rm -f ./test*.o", NL, "llvm-ar rcs libfuzz.a *.o", NL >> >>,
       << name("PureCFileCompilerFind"), "1" >>) >>

\* PureMakefileScanner.steps_to_build
PureMakefileSteps ==
  << AutoBuildContainer(<< << "make" >> >>, << name("PureMakefileScanner"), "1" >>) >>

\* PureMakefileScannerWithPThread.steps_to_build
PThreadSteps ==
  << AutoBuildContainer(
       << << "export CXXFLAGS=\"${CXXFLAGS} -lpthread\"" >>, << "make" >> >>,
       << name("PureMakefileScannerWithPThread"), "1" >>) >>

\* PureMakefileScannerWithSubstitutions.steps_to_build
SubstitutionsSteps ==
  << AutoBuildContainer(
       << << "sed -i 's/-Werror/-Wno-error/g' ./Makefile" >>,
          << "sed -i 's/CC=/#CC=/g' ./Makefile" >>,
          << "sed -i 's/CXX=/#CXX=/g' ./Makefile" >>,
          << "sed -i 's/CC =/#CC=/g' ./Makefile" >>,
          << "sed -i 's/CXX =/#CXX=/g' ./Makefile" >>,
          << "make V=1 || true" >> >>,
       << name("PureMakefileScannerWithSubstitutions"), "1" >>) >>

\* AutoRefConfScanner.steps_to_build
AutoRefConfSteps ==
  << AutoBuildContainer(<< << "autoreconf -fi" >>, << "./configure" >>, << "make" >> >>,
                        << name("AutoRefConfScanner"), "1" >>) >>

\* RawMake.steps_to_build: 'make', then 'make' and 'make test'
RawMakeSteps ==
  LET cmds_to_exec_from_root == << << "make" >> >>
  IN  << AutoBuildContainer(cmds_to_exec_from_root, << name("RawMake"), "1" >>),
         AutoBuildContainer(cmds_to_exec_from_root \o << << "make test" >> >>,
                            << name("RawMake"), "1" >>) >>

\* AutogenScanner.steps_to_build
AutogenSteps ==
  << AutoBuildContainer(
       << << "autoconf" >>, << "autoheader" >>, << "./configure" >>, << "make" >> >>,
       << name("AutogenScanner"), "1" >>) >>

\* AutogenConfScanner.steps_to_build
AutogenConfSteps ==
  << AutoBuildContainer(<< << "./configure" >>, << "make" >> >>,
                        << name("AutogenConfScanner"), "1" >>) >>

\* cmake_opts / cmake_default_options of CMakeScanner.steps_to_build
cmake_default_options ==
  << << "-DCMAKE_VERBOSE_MAKEFILE=ON" >>, << "-DCMAKE_CXX_COMPILER=$CXX" >>,
     << "-DCMAKE_CXX_FLAGS=\"$CXXFLAGS\"" >> >>

\* '-D%s=OFF' % option and '-D%s=ON' % option
DFlag(option, value) == << "-D" >> \o option \o << "=", value >>

\* the first option loop of CMakeScanner.steps_to_build, one option: the flags it appends
SharedStaticFlag(option) ==
  IF option = << "BUILD_SHARED_LIBS" >> THEN << DFlag(option, "OFF") >>
  ELSE IF option = << "BUILD_STATIC" >> THEN << DFlag(option, "ON") >>
  ELSE IF option = << "BUILD_SHARED" >> THEN << DFlag(option, "OFF") >>
  ELSE IF option = << "ENABLE_STATIC" >> THEN << DFlag(option, "ON") >>
  ELSE << >>

\* a second option loop that leaves the BUILD_TESTS options out
SharedStaticTestsFlagNoTests(option) == SharedStaticFlag(option)

\* the second option loop, one option: as the first, and BUILD_TESTS options set ON
SharedStaticTestsFlag(option) ==
  IF option = << "BUILD_SHARED_LIBS" >> THEN << DFlag(option, "OFF") >>
  ELSE IF option = << "BUILD_STATIC" >> THEN << DFlag(option, "ON") >>
  ELSE IF option = << "BUILD_SHARED" >> THEN << DFlag(option, "OFF") >>
  ELSE IF option = << "ENABLE_STATIC" >> THEN << DFlag(option, "ON") >>
  ELSE IF Contains(option, "BUILD_TESTS") THEN << DFlag(option, "ON") >>
  ELSE << >>

\* the command list bopt built from option_values
OptionBuild(option_values) ==
  << << "mkdir fuzz-build" >>, << "cd fuzz-build" >>,
     << "cmake", " " >> \o Join(cmake_default_options, " ") \o << " " >>
        \o Join(option_values, " ") \o << " ", "../" >>,
     << "make V=1" >> >>

\* build_container3: yielded when the first loop found a flag
OptionCandidate3(iter) ==
  LET option_values == Flatten([i \in 1..Len(iter) |-> SharedStaticFlag(iter[i])])
  IN  IF Len(option_values) > 0
      THEN << AutoBuildContainer(OptionBuild(option_values), << name("CMakeScanner"), "3" >>) >>
      ELSE << >>

\* build_container4: yielded when the second loop found a flag
OptionCandidate4(iter) ==
  LET option_values == Flatten([i \in 1..Len(iter) |-> SharedStaticTestsFlag(iter[i])])
  IN  IF Len(option_values) > 0
      THEN << AutoBuildContainer(OptionBuild(option_values), << name("CMakeScanner"), "3" >>) >>
      ELSE << >>

\* CMakeScanner.steps_to_build, with cmake_options iterated in the order iter
CMakeSteps(iter) ==
  LET cmake_line == << "cmake", " " >> \o Join(cmake_default_options, " ") \o << " ", "../" >>
  IN  << AutoBuildContainer(
           << << "mkdir fuzz-build" >>, << "cd fuzz-build" >>,
              << "cmake", " ", "-DCMAKE_VERBOSE_MAKEFILE=ON", " ", "../" >>,
              << "make V=1 || true" >> >>,
           << name("CMakeScanner"), "1" >>),
         AutoBuildContainer(
           << << "mkdir fuzz-build" >>, << "cd fuzz-build" >>, cmake_line,
              << "make V=1 || true" >> >>,
           << name("CMakeScanner"), "2" >>),
         AutoBuildContainer(
           << << "mkdir fuzz-build" >>, << "cd fuzz-build" >>, cmake_line,
              << "sed -i 's/SHARED/STATIC/g' ../CMakeLists.txt" >>,
              << "make V=1 || true" >> >>,
           << name("CMakeScanner"), "static" >>) >>
      \o OptionCandidate3(iter) \o OptionCandidate4(iter)

\* steps_to_build of a detector: the candidates its generator yields, in order
StepsToBuild(cls, mf, iter) ==
  CASE cls = "PureCFileCompiler" -> PureCSteps(mf)
    [] cls = "PureCFileCompilerFind" -> PureCFindSteps
    [] cls = "PureMakefileScanner" -> PureMakefileSteps
    [] cls = "PureMakefileScannerWithPThread" -> PThreadSteps
    [] cls = "PureMakefileScannerWithSubstitutions" -> SubstitutionsSteps
    [] cls = "AutoRefConfScanner" -> AutoRefConfSteps
    [] cls = "RawMake" -> RawMakeSteps
    [] cls = "AutogenScanner" -> AutogenSteps
    [] cls = "AutogenConfScanner" -> AutogenConfSteps
    [] cls = "CMakeScanner" -> CMakeSteps(iter)

\* ------------------------------------------------------ materialisation

\* os.path.isabs
IsAbs(p) == StartsWith(p, << "/" >>)

\* os.path.join(a, b)
PathJoin(a, b) ==
  IF IsAbs(b) THEN b
  ELSE IF a = << >> \/ EndsWith(a, << "/" >>) THEN a \o b
  ELSE a \o << "/" >> \o b

RECURSIVE NormComps(_, _, _)
\* the loop of posixpath.normpath over the components of the path
NormComps(comps, new_comps, initial_slashes) ==
  IF Len(comps) = 0 THEN new_comps
  ELSE LET comp == comps[1]
           n == Len(new_comps)
       IN  IF comp \in { << >>, << "." >> }
           THEN NormComps(Tail(comps), new_comps, initial_slashes)
           ELSE IF \/ comp # << ".." >>
                   \/ (initial_slashes = 0 /\ n = 0)
                   \/ (n > 0 /\ new_comps[n] = << ".." >>)
           THEN NormComps(Tail(comps), Append(new_comps, comp), initial_slashes)
           ELSE IF n > 0
           THEN NormComps(Tail(comps), SubSeq(new_comps, 1, n - 1), initial_slashes)
           ELSE NormComps(Tail(comps), new_comps, initial_slashes)

\* posixpath.normpath
NormPath(path) ==
  IF path = << >> THEN << "." >>
  ELSE LET initial_slashes ==
             IF ~StartsWith(path, << "/" >>) THEN 0
             ELSE IF StartsWith(path, << "/", "/" >>) /\ ~StartsWith(path, << "/", "/", "/" >>)
             THEN 2 ELSE 1
           joined == Join(NormComps(Split(path, "/"), << >>, initial_slashes), "/")
           res == [i \in 1..initial_slashes |-> "/"] \o joined
       IN  IF res = << >> THEN << "." >> ELSE res

\* os.path.abspath, with getcwd the current directory of the process
AbsPath(path, getcwd) == NormPath(IF IsAbs(path) THEN path ELSE PathJoin(getcwd, path))

\* a working directory that leaves the index out
TestDirNoIndex(testing_base_dir, idx, getcwd) ==
  AbsPath(PathJoin(getcwd, testing_base_dir), getcwd)

\* test_dir of convert_build_heuristics_to_scripts for the candidate at index idx
TestDir(testing_base_dir, idx, getcwd) ==
  AbsPath(PathJoin(getcwd, testing_base_dir \o Str(idx)), getcwd)

\* wrap_build_script
wrap_build_script(test_dir, build_container, abspath_of_target) ==
  << "#!/bin/bash", NL >>
  \o << "rm", " ", "-rf", " ", "/" >> \o test_dir \o << NL >>
  \o << "cp", " ", "-rf", " " >> \o abspath_of_target \o << " " >> \o test_dir \o << NL >>
  \o << "cd", " " >> \o test_dir \o << NL >>
  \o Flatten([i \in 1..Len(build_container.list_of_commands) |->
                build_container.list_of_commands[i] \o << NL >>])

\* convert_build_heuristics_to_scripts: (build_script, test_dir, build_suggestion)
\* for every candidate, in order
convert_build_heuristics_to_scripts(suggestions, testing_base_dir, target, getcwd) ==
  [i \in 1..Len(suggestions) |->
     LET test_dir == TestDir(testing_base_dir, i - 1, getcwd)
     IN  << wrap_build_script(test_dir, suggestions[i], target), test_dir, suggestions[i] >>]

\* ---------------------------------------------------------- evaluation

\* get_all_binary_files_from_folder, on the files the folder holds
get_all_binary_files_from_folder(files) ==
  [kind \in {"static-libs", "dynamic-libs", "object-files"} |->
     SelectSeq(files, LAMBDA fil :
       CASE kind = "object-files" -> EndsWith(fil, << ".o" >>)
         [] kind = "static-libs" -> EndsWith(fil, << ".a" >>)
         [] kind = "dynamic-libs" -> EndsWith(fil, << ".so" >>))]

\* new_binary_files of raw_build_evaluation: what was built and was not there before
NewBinaryFiles(binary_files_build, initial_executable_files) ==
  [kind \in DOMAIN binary_files_build |->
     SelectSeq(binary_files_build[kind], LAMBDA bfile :
       \A i \in 1..Len(initial_executable_files[kind]) :
         initial_executable_files[kind][i] # bfile)]

\* the entry raw_build_evaluation stores under test_dir
BuildResult(setup, binary_files_build) ==
  [key \in {"build-script", "executables-build", "auto-build-setup"} |->
     CASE key = "build-script" -> setup[1]
       [] key = "executables-build" -> binary_files_build
       [] key = "auto-build-setup" -> setup]

\* ------------------------------------------------------------------ bounds

\* the longest file list the target folder holds
MaxFiles == 4
\* the longest candidate list handed to convert_build_heuristics_to_scripts
MaxCands == 11
\* the longest script list handed to raw_build_evaluation
MaxScripts == 3

\* ------------------------------------------------------------------ inputs

FooC == << "foo", ".c" >>
BarC == << "bar", ".c" >>
TestBazC == << "test", "_baz", ".c" >>
ExampleQuxC == << "example", "_qux", ".c" >>
MainC == << "proj", "/", "src", "/", "main", ".c" >>
MakefilePath == << "proj", "/", "Makefile" >>
ConfigureAc == << "proj", "/", "configure.ac" >>
MakefileAm == << "proj", "/", "Makefile", ".am" >>
CMakeTop == << "proj", "/", "CMakeLists.txt" >>
CMakeSub == << "proj", "/", "sub", "/", "CMakeLists.txt" >>
Readme == << "proj", "/", "README" >>

\* the paths a target folder may hold, in the order the enumeration returns them
FilePool ==
  << FooC, BarC, TestBazC, ExampleQuxC, MainC, MakefilePath, ConfigureAc, MakefileAm,
     CMakeTop, CMakeSub, Readme >>

FileSet == { FilePool[i] : i \in 1..Len(FilePool) }

OptionLine(opt) == << "option(" >> \o opt \o << " ", "\"desc\"", " ", "ON)" >>

\* what a CMakeLists.txt may contain
CMakeContents ==
  { << >>,
    OptionLine(<< "BUILD_SHARED_LIBS" >>),
    << "project(x)", NL >> \o OptionLine(<< "BUILD_TESTS" >>) \o << NL >>
       \o OptionLine(<< "ENABLE_STATIC" >>) \o << NL >>,
    OptionLine(<< "MY_", "BUILD_TESTS", "_X" >>) \o << NL >> \o OptionLine(<< "WITH_FOO" >>),
    OptionLine(<< "BUILD_STATIC" >>) \o << NL, "  " >> \o OptionLine(<< "BUILD_SHARED" >>),
    << "option(", " ", "FOO", NL, "option(", "A", "option(", "BUILD_SHARED", " ", "x" >> }

\* what the CMakeLists.txt of the subdirectory may contain
CMakeSubContents == { << >>, OptionLine(<< "BUILD_SHARED_LIBS" >>) \o << NL >> }

Reverse(s) == [i \in 1..Len(s) |-> s[Len(s) + 1 - i]]

Targets == { << "/", "src", "/", "proj" >> }
BaseDirs ==
  { << "work" >>, << "/", "tmp", "/", "w" >>, << "b", "/" >>,
    << "a", "/", "..", "/", ".", "/", "t" >>, << >> }
Cwds == { << "/" >>, << "/", "root" >> }
\* the working directories wrap_build_script is called with directly
WrapDirs == { << "work", "0" >>, << "/", "tmp", "/", "w", "1" >> }

\* what a working directory may hold after a build
FolderContents ==
  { << >>, << << "proj", "/", "x", ".o" >>, << "libfuzz", ".a" >> >>,
    << << "liby", ".so" >> >> }

\* the baselines raw_build_evaluation may be given
Baselines ==
  { get_all_binary_files_from_folder(<< >>),
    get_all_binary_files_from_folder(<< << "proj", "/", "x", ".o" >> >>) }

\* candidates the detectors yield, for the inputs of the materialisation
CandPool == PureMakefileSteps \o RawMakeSteps \o AutogenSteps \o PureCFindSteps

\* n candidates taken from CandPool in turn, starting after the first off
CandList(n, off) == [i \in 1..n |-> CandPool[((i + off - 1) % Len(CandPool)) + 1]]

\* ------------------------------------------------------------------- state

VARIABLES
  abspath_of_target,   \* the target folder
  all_files,           \* manager.get_all_files_in_path(abspath_of_target)
  contents,            \* the text of each CMakeLists.txt of the folder
  pc,                  \* where the program is
  k,                   \* index in all_checks of the scanner of the registry loop
  matches_found,       \* matches_found of every detector
  cmake_options,       \* CMakeScanner.cmake_options
  cmake_iter,          \* the order in which the set cmake_options iterates
  matched,             \* what is_matched() returned to the registry, per detector
  gen,                 \* position of the generator steps_to_build() being drained
  out,                 \* the candidates yielded so far (all_build_suggestions)
  out_by,              \* history: the detector that yielded each candidate
  invoked,             \* history: the detectors whose steps_to_build() was invoked
  testing_base_dir,    \* the base prefix of the working directories
  getcwd,              \* os.getcwd()
  all_build_scripts,   \* the (build_script, test_dir, build_suggestion) tuples
  wrapped,             \* the arguments and result of a direct wrap_build_script call
  initial_executable_files, \* the baseline given to raw_build_evaluation
  cur,                 \* index of the script raw_build_evaluation is at
  build_sh,            \* the content of /src/build.sh
  build_results,       \* the report of raw_build_evaluation
  new_binary_files,    \* new_binary_files of the iteration that ran last
  found,               \* history: binary_files_build of every iteration
  log                  \* history: the steps raw_build_evaluation has taken

vars ==
  << abspath_of_target, all_files, contents, pc, k, matches_found, cmake_options,
     cmake_iter, matched, gen, out, out_by, invoked, testing_base_dir, getcwd,
     all_build_scripts, wrapped, initial_executable_files, cur, build_sh,
     build_results, new_binary_files, found, log >>

registryVars ==
  << k, matches_found, cmake_options, cmake_iter, matched, gen, out, out_by, invoked >>
inputVars == << abspath_of_target, all_files, contents >>
scriptVars == << testing_base_dir, getcwd, all_build_scripts, wrapped >>
evalVars ==
  << initial_executable_files, cur, build_sh, build_results, new_binary_files, found, log >>

NoFile == << "(no file)" >>

\* the state before any function ran: the detectors as constructed, no output
Fresh ==
  /\ k = 1
  /\ matches_found = [cls \in Detectors |-> InitMatchesFound(cls)]
  /\ cmake_options = {}
  /\ cmake_iter = << >>
  /\ matched = [cls \in Detectors |-> "untested"]
  /\ gen = 1
  /\ out_by = << >>
  /\ invoked = {}
  /\ testing_base_dir = << >>
  /\ getcwd = << "/" >>
  /\ wrapped = << >>
  /\ cur = 1
  /\ build_sh = NoFile
  /\ build_results = << >>
  /\ new_binary_files = get_all_binary_files_from_folder(<< >>)
  /\ found = << >>
  /\ log = << >>

\* match_build_heuristics_on_folder is called on a folder holding at most MaxFiles
\* of the pool's paths
Init ==
  /\ Fresh
  /\ pc = "match"
  /\ abspath_of_target \in Targets
  /\ \E S \in SUBSET FileSet :
       /\ Cardinality(S) <= MaxFiles
       /\ \E rev \in BOOLEAN :
            LET listed == SelectSeq(FilePool, LAMBDA f : f \in S)
            IN  all_files = IF rev THEN Reverse(listed) ELSE listed
       /\ \E top \in (IF CMakeTop \in S THEN CMakeContents ELSE { << >> }),
             sub \in (IF CMakeSub \in S THEN CMakeSubContents ELSE { << >> }) :
            contents = [f \in {CMakeTop, CMakeSub} |-> IF f = CMakeTop THEN top ELSE sub]
  /\ out = << >>
  /\ all_build_scripts = << >>
  /\ initial_executable_files = get_all_binary_files_from_folder(<< >>)

scanner == all_checks[k]

\* a registry loop that ends at the first scanner it is done with
NextScannerFirstWins == pc' = "convert" /\ k' = k

\* the registry loop moves to the next scanner, or ends
NextScanner ==
  IF k = Len(all_checks)
  THEN pc' = "convert" /\ k' = k
  ELSE pc' = "match" /\ k' = k + 1

\* scanner.match_files(all_files), for every detector but CMakeScanner
MatchFiles ==
  /\ pc = "match"
  /\ scanner # "CMakeScanner"
  /\ matches_found' =
       [matches_found EXCEPT ![scanner] = MatchFilesOf(scanner, @, all_files)]
  /\ pc' = "test"
  /\ UNCHANGED << k, cmake_options, cmake_iter, matched, gen, out, out_by, invoked >>
  /\ UNCHANGED << inputVars, scriptVars, evalVars >>

\* CMakeScanner.match_files(all_files): the matches, and the options of every
\* matched file; the set then iterates in some order
CMakeMatchFiles ==
  /\ pc = "match"
  /\ scanner = "CMakeScanner"
  /\ matches_found' =
       [matches_found EXCEPT ![scanner] = MatchFilesOf(scanner, @, all_files)]
  /\ cmake_options' =
       CMakeHarvest(cmake_options, matches_found[scanner], all_files, contents)
  /\ cmake_iter' \in Orders(cmake_options')
  /\ pc' = "test"
  /\ UNCHANGED << k, matched, gen, out, out_by, invoked >>
  /\ UNCHANGED << inputVars, scriptVars, evalVars >>

\* if scanner.is_matched(): steps_to_build() is called; otherwise the next scanner
IsMatched ==
  /\ pc = "test"
  /\ LET res == is_matched(matches_found[scanner])
     IN  /\ matched' = [matched EXCEPT ![scanner] = IF res THEN "matched" ELSE "unmatched"]
         /\ IF res
            THEN pc' = "steps" /\ k' = k /\ invoked' = invoked \cup {scanner}
            ELSE NextScanner /\ invoked' = invoked
  /\ gen' = 1
  /\ UNCHANGED << matches_found, cmake_options, cmake_iter, out, out_by >>
  /\ UNCHANGED << inputVars, scriptVars, evalVars >>

\* the steps the registry sees when it drains scanner.steps_to_build()
DrainedSteps(cls, mf, iter) == StepsToBuild(cls, mf, iter)

\* for auto_build_gen in scanner.steps_to_build(): yield auto_build_gen
YieldStep ==
  /\ pc = "steps"
  /\ LET steps == DrainedSteps(scanner, matches_found[scanner], cmake_iter)
     IN  /\ out' = Append(out, steps[gen])
         /\ out_by' = Append(out_by, scanner)
         /\ IF gen >= Len(steps)
            THEN NextScanner /\ gen' = 1
            ELSE pc' = "steps" /\ k' = k /\ gen' = gen + 1
  /\ UNCHANGED << matches_found, cmake_options, cmake_iter, matched, invoked >>
  /\ UNCHANGED << inputVars, scriptVars, evalVars >>

\* extract_build_suggestions, once the generator is drained: the scripts
ConvertScripts ==
  /\ pc = "convert"
  /\ \E base \in BaseDirs, cwd \in Cwds :
       /\ testing_base_dir' = base
       /\ getcwd' = cwd
       /\ all_build_scripts' =
            convert_build_heuristics_to_scripts(out, base, abspath_of_target, cwd)
  /\ pc' = "done"
  /\ UNCHANGED << wrapped, registryVars, inputVars, evalVars >>

Next == MatchFiles \/ CMakeMatchFiles \/ IsMatched \/ YieldStep \/ ConvertScripts

Spec == Init /\ [][Next]_vars

\* ------------------------------------------- the materialisation on its own

\* convert_build_heuristics_to_scripts and wrap_build_script are called on a list
\* of at most MaxCands candidates
InitConvert ==
  /\ Fresh
  /\ pc = "convert"
  /\ abspath_of_target \in Targets
  /\ all_files = << >>
  /\ contents = [f \in {CMakeTop, CMakeSub} |-> << >>]
  /\ \E n \in 0..MaxCands, off \in 0..(Len(CandPool) - 1) : out = CandList(n, off)
  /\ all_build_scripts = << >>
  /\ initial_executable_files = get_all_binary_files_from_folder(<< >>)

\* wrap_build_script(test_dir, build_container, abspath_of_target), called directly
WrapBuildScript ==
  /\ pc = "convert"
  /\ \E test_dir \in WrapDirs, i \in 1..Len(out) :
       wrapped' = << wrap_build_script(test_dir, out[i], abspath_of_target), test_dir, out[i] >>
  /\ pc' = "wrapped"
  /\ UNCHANGED << testing_base_dir, getcwd, all_build_scripts >>
  /\ UNCHANGED << registryVars, inputVars, evalVars >>

NextConvert == ConvertScripts \/ WrapBuildScript

SpecConvert == InitConvert /\ [][NextConvert]_vars

\* ----------------------------------------------------- raw_build_evaluation

\* raw_build_evaluation is called on the scripts of at most MaxScripts candidates
InitEval ==
  /\ Fresh
  /\ pc = "write"
  /\ abspath_of_target \in Targets
  /\ all_files = << >>
  /\ contents = [f \in {CMakeTop, CMakeSub} |-> << >>]
  /\ \E n \in 0..MaxScripts, off \in 0..(Len(CandPool) - 1) : out = CandList(n, off)
  /\ \E base \in { << "work" >>, << "/", "tmp", "/", "w" >> } :
       all_build_scripts =
         convert_build_heuristics_to_scripts(out, base, abspath_of_target, << "/", "root" >>)
  /\ initial_executable_files \in Baselines

\* with open('/src/build.sh', 'w') as bf: bf.write(build_script)
WriteBuildSh ==
  /\ pc = "write"
  /\ cur <= Len(all_build_scripts)
  /\ build_sh' = all_build_scripts[cur][1]
  /\ log' = Append(log, << "write", cur, "-" >>)
  /\ pc' = "compile"
  /\ UNCHANGED << initial_executable_files, cur, build_results, new_binary_files, found >>
  /\ UNCHANGED << registryVars, inputVars, scriptVars >>

\* a loop body that lets CalledProcessError out of raw_build_evaluation
AfterCompileRaises(exit) == IF exit = "exit 0" THEN "collect" ELSE "returned"

\* where the loop body goes after check_call('compile'): CalledProcessError is
\* caught and passed over
AfterCompile(exit) == "collect"

\* subprocess.check_call('compile', ...) returns
CompileSucceeds ==
  /\ pc = "compile"
  /\ log' = Append(log, << "compile", cur, "exit 0" >>)
  /\ pc' = AfterCompile("exit 0")
  /\ UNCHANGED << initial_executable_files, cur, build_sh, build_results, new_binary_files, found >>
  /\ UNCHANGED << registryVars, inputVars, scriptVars >>

\* subprocess.check_call('compile', ...) raises CalledProcessError
CompileFails ==
  /\ pc = "compile"
  /\ log' = Append(log, << "compile", cur, "CalledProcessError" >>)
  /\ pc' = AfterCompile("CalledProcessError")
  /\ UNCHANGED << initial_executable_files, cur, build_sh, build_results, new_binary_files, found >>
  /\ UNCHANGED << registryVars, inputVars, scriptVars >>

\* the rest of the loop body: the artifacts of test_dir, those that are new, and
\* the entry of the report
CollectArtifacts ==
  /\ pc = "collect"
  /\ \E files \in FolderContents :
       LET setup == all_build_scripts[cur]
           test_dir == setup[2]
           binary_files_build == get_all_binary_files_from_folder(files)
       IN  /\ new_binary_files' = NewBinaryFiles(binary_files_build, initial_executable_files)
           /\ found' = Append(found, binary_files_build)
           /\ build_results' =
                [d \in DOMAIN build_results \cup {test_dir} |->
                   IF d = test_dir THEN BuildResult(setup, binary_files_build)
                   ELSE build_results[d]]
  /\ log' = Append(log, << "collect", cur, "-" >>)
  /\ cur' = cur + 1
  /\ pc' = "write"
  /\ UNCHANGED << initial_executable_files, build_sh >>
  /\ UNCHANGED << registryVars, inputVars, scriptVars >>

\* return build_results
ReturnResults ==
  /\ pc = "write"
  /\ cur > Len(all_build_scripts)
  /\ pc' = "returned"
  /\ UNCHANGED << registryVars, inputVars, scriptVars, evalVars >>

NextEval == WriteBuildSh \/ CompileSucceeds \/ CompileFails \/ CollectArtifacts \/ ReturnResults

SpecEval == InitEval /\ [][NextEval]_vars

\* ================================================================== claims

\* the position of a detector in all_checks
Index(cls) == CHOOSE i \in 1..Len(all_checks) : all_checks[i] = cls

\* match_files of the detector has run
HasMatchedFiles(cls) == k > Index(cls) \/ (k = Index(cls) /\ pc # "match")

\* the registry is done with the detector
Drained(cls) == k > Index(cls) \/ pc \in {"convert", "done"}

\* every tracked signature of the detector has a non-empty match list
AllSignaturesFound(cls) ==
  \A key \in DOMAIN matches_found[cls] : Len(matches_found[cls][key]) > 0

\* the candidates of `out` that the detector yielded, in order
YieldedBy(cls) ==
  LET at == SelectSeq([i \in 1..Len(out) |-> i], LAMBDA i : out_by[i] = cls)
  IN  [j \in 1..Len(at) |-> out[at[j]]]

\* C1: after match_files(file_list), is_matched() returns true if and only if
\* every tracked signature of matches_found has a non-empty match list.
C1_IsMatchedIffAllSignaturesFound ==
  \A cls \in Detectors :
    matched[cls] # "untested" => (matched[cls] = "matched" <=> AllSignaturesFound(cls))

\* C2: a detector with a tracked signature that no file of the list matches never
\* has steps_to_build() invoked, and none of its candidates is in the output.
C2_UnmatchedNeverContributes ==
  \A cls \in Detectors :
    (HasMatchedFiles(cls) /\ ~AllSignaturesFound(cls)) =>
      (cls \notin invoked /\ \A i \in 1..Len(out_by) : out_by[i] # cls)

\* the folder holds a Makefile and no other recognised descriptor
MakefileOnly ==
  /\ \E i \in 1..Len(all_files) : all_files[i] = MakefilePath
  /\ \A i \in 1..Len(all_files) : all_files[i] \in {MakefilePath, Readme}

\* C3: for a folder with a Makefile and no other recognised descriptor,
\* extract_build_suggestions produces exactly five candidates (plain, pthread,
\* substitutions, then the two of RawMake), each with its own working directory
\* derived from its position.
C3_MakefileOnlyYieldsFive ==
  (pc = "done" /\ MakefileOnly) =>
    /\ out_by = << "PureMakefileScanner", "PureMakefileScannerWithPThread",
                   "PureMakefileScannerWithSubstitutions", "RawMake", "RawMake" >>
    /\ Len(all_build_scripts) = 5
    /\ \A i, j \in 1..Len(all_build_scripts) :
         all_build_scripts[i][2] = all_build_scripts[j][2] => i = j

\* what the registry has yielded once it is at scanner k: the candidates of every
\* detector before k that is_matched() accepted, then those drained from k
ExpectedOut ==
  Flatten([i \in 1..Len(all_checks) |->
    LET cls == all_checks[i]
        steps == IF matched[cls] = "matched"
                 THEN StepsToBuild(cls, matches_found[cls], cmake_iter) ELSE << >>
    IN  IF Drained(cls) THEN steps
        ELSE IF i = k /\ pc = "steps" THEN SubSeq(steps, 1, gen - 1)
        ELSE << >>])

\* C4: the output is the concatenation, in registration order, of the candidates
\* of each detector is_matched() accepted, each in its own yield order; a detector
\* is matched, tested and drained before the next one is touched, and no accepted
\* detector is skipped.
C4_RegistrationOrderConcatenation ==
  /\ out = ExpectedOut
  /\ \A i, j \in 1..Len(out_by) : i < j => Index(out_by[i]) <= Index(out_by[j])
  /\ \A cls \in Detectors :
       Index(cls) > k =>
         /\ matches_found[cls] = InitMatchesFound(cls)
         /\ matched[cls] = "untested"
         /\ cls \notin invoked
  /\ \A cls \in Detectors :
       Drained(cls) =>
         /\ matched[cls] # "untested"
         /\ matched[cls] = "matched" => YieldedBy(cls) # << >>

\* C4's case: the registry is done, several detectors were drained, two of them
\* of more than one candidate
C4_Witness ==
  /\ pc = "done"
  /\ Len(YieldedBy("RawMake")) = 2
  /\ Len(YieldedBy("CMakeScanner")) = 5
  /\ Len(YieldedBy("PureMakefileScanner")) = 1

\* C5: the labels of the candidates one steps_to_build() call yields are pairwise
\* distinct.
C5_LabelsOfOneDetectorDistinct ==
  \A i, j \in 1..Len(out) :
    (i # j /\ out_by[i] = out_by[j]) => out[i].heuristic_id # out[j].heuristic_id

\* the entry is a non-empty tail of the path: it names the file the path names
Identifies(entry, path) == entry # << >> /\ EndsWith(path, entry)

\* the paths the claim has the strict detector accept
StrictPaths ==
  SelectSeq(all_files, LAMBDA fi :
    EndsWith(fi, << ".c" >>) /\ ~Contains(fi, "test") /\ ~Contains(fi, "example"))

\* C8: after match_files the strict detector has one entry for each path ending
\* in '.c' without 'test' or 'example', each entry identifying that source file
\* (the path with its first segment dropped), and the find-based detector has
\* every path ending in '.c' unchanged.
C8_DirectCMatches ==
  /\ HasMatchedFiles("PureCFileCompiler") =>
       LET entries == matches_found["PureCFileCompiler"][<< ".c" >>]
       IN  /\ Len(entries) = Len(StrictPaths)
           /\ \A i \in 1..Len(entries) :
                /\ Identifies(entries[i], StrictPaths[i])
                /\ Len(Split(entries[i], "/")) >= Len(Split(StrictPaths[i], "/")) - 1
  /\ HasMatchedFiles("PureCFileCompilerFind") =>
       matches_found["PureCFileCompilerFind"][<< ".c" >>]
         = SelectSeq(all_files, LAMBDA fi : EndsWith(fi, << ".c" >>))

\* the harvested names the claim has the option-derived candidate set
KnownToggles ==
  { o \in cmake_options :
      \/ o \in { << "BUILD_SHARED_LIBS" >>, << "BUILD_STATIC" >>, << "BUILD_SHARED" >>,
                 << "ENABLE_STATIC" >> }
      \/ Contains(o, "BUILD_TESTS") }

\* the flag the claim gives a known toggle: the value favouring static output
StaticFavouringFlag(o) ==
  << "-D" >> \o o \o
    (IF o \in { << "BUILD_SHARED_LIBS" >>, << "BUILD_SHARED" >> }
     THEN << "=", "OFF" >> ELSE << "=", "ON" >>)

\* the words of a candidate's cmake command between the default options and '../'
OptionFlagsOf(candidate) ==
  LET words == Split(candidate.list_of_commands[3], " ")
  IN  SubSeq(words, 2 + Len(cmake_default_options), Len(words) - 1)

\* C9: steps_to_build yields an option-derived candidate iff a known toggle was
\* harvested; it comes after the plain, flag-augmented and static-forced ones and
\* its cmake command has one -D flag per harvested toggle, with the value that
\* favours static output.
C9_OptionDerivedCandidate ==
  Drained("CMakeScanner") =>
    LET cm == YieldedBy("CMakeScanner")
    IN  /\ Len(cm) >= 3
        /\ cm[1].heuristic_id = << "cmake", "1" >>
        /\ cm[2].heuristic_id = << "cmake", "2" >>
        /\ cm[3].heuristic_id = << "cmake", "static" >>
        /\ Len(cm) > 3 <=> KnownToggles # {}
        /\ \A i \in 4..Len(cm) :
             \A j \in 1..Len(OptionFlagsOf(cm[i])) :
               \E o \in KnownToggles : OptionFlagsOf(cm[i])[j] = StaticFavouringFlag(o)
        /\ KnownToggles # {} =>
             LET flags == OptionFlagsOf(cm[Len(cm)])
             IN  /\ Len(flags) = Cardinality(KnownToggles)
                 /\ \A o \in KnownToggles :
                      \E j \in 1..Len(flags) : flags[j] = StaticFavouringFlag(o)

\* C9's case: option(BUILD_SHARED_LIBS "desc" ON) was read, with a BUILD_TESTS
\* option beside it, and a candidate with -DBUILD_SHARED_LIBS=OFF was yielded
C9_Witness ==
  /\ pc = "done"
  /\ contents[CMakeSub] = OptionLine(<< "BUILD_SHARED_LIBS" >>) \o << NL >>
  /\ << "BUILD_SHARED_LIBS" >> \in cmake_options
  /\ << "MY_", "BUILD_TESTS", "_X" >> \in cmake_options
  /\ LET cm == YieldedBy("CMakeScanner")
     IN  /\ Len(cm) = 5
         /\ \E j \in 1..Len(OptionFlagsOf(cm[5])) :
              OptionFlagsOf(cm[5])[j] = << "-D", "BUILD_SHARED_LIBS", "=", "OFF" >>

\* the path is absolute and already normal: no empty, '.' or '..' component
PlainAbsolute(p) ==
  /\ Len(p) > 1
  /\ p[1] = "/"
  /\ \A i \in 2..Len(Split(p, "/")) :
       Split(p, "/")[i] \notin { << >>, << "." >>, << ".." >> }

\* C6: convert_build_heuristics_to_scripts returns one tuple per candidate, in
\* candidate order, the i-th holding the i-th candidate; the working directories
\* are pairwise distinct, each one common prefix followed by the zero-based index
\* (the base prefix itself when it is a plain absolute path).
C6_OneDistinctDirPerCandidate ==
  pc = "done" =>
    /\ Len(all_build_scripts) = Len(out)
    /\ \A i \in 1..Len(out) : all_build_scripts[i][3] = out[i]
    /\ \A i, j \in 1..Len(all_build_scripts) :
         all_build_scripts[i][2] = all_build_scripts[j][2] => i = j
    /\ Len(all_build_scripts) > 0 =>
         LET first == all_build_scripts[1][2]
             prefix == SubSeq(first, 1, Len(first) - 1)
         IN  /\ \A i \in 1..Len(all_build_scripts) :
                  all_build_scripts[i][2] = prefix \o Str(i - 1)
             /\ PlainAbsolute(testing_base_dir) => prefix = testing_base_dir

\* C6's case: a relative base prefix and enough candidates for a two-digit index
C6_Witness ==
  /\ pc = "done"
  /\ testing_base_dir = << "work" >>
  /\ getcwd = << "/", "root" >>
  /\ Len(all_build_scripts) = 11
  /\ all_build_scripts[11][2] = << "/", "root", "/", "work", "1", "0" >>

\* the two paths name the same place: both absolute or both relative, with the
\* same components
SamePath(p, q) ==
  /\ IsAbs(p) = IsAbs(q)
  /\ SelectSeq(Split(p, "/"), LAMBDA c : c # << >>)
       = SelectSeq(Split(q, "/"), LAMBDA c : c # << >>)

\* the script is the shebang, the removal of test_dir, the copy of the target to
\* test_dir, the cd into test_dir, then the candidate's commands, one per line
ScriptOf(script, test_dir, candidate) ==
  LET lines == Split(script, NL)
      rm == Split(lines[2], " ")
      cp == Split(lines[3], " ")
      cd == Split(lines[4], " ")
  IN  /\ Len(lines) >= 5
      /\ lines[1] = << "#!/bin/bash" >>
      /\ Len(rm) = 3 /\ rm[1] = << "rm" >> /\ rm[2] = << "-rf" >> /\ SamePath(rm[3], test_dir)
      /\ Len(cp) = 4 /\ cp[1] = << "cp" >> /\ cp[2] = << "-rf" >>
      /\ cp[3] = abspath_of_target /\ cp[4] = test_dir
      /\ cd = << << "cd" >>, test_dir >>
      /\ Join(SubSeq(lines, 5, Len(lines)), NL)
           = Flatten([i \in 1..Len(candidate.list_of_commands) |->
                        candidate.list_of_commands[i] \o << NL >>])

\* C7: the script of wrap_build_script is the shebang, a removal of the directory
\* at exactly the working-directory path, a recursive copy of the target to that
\* path, a cd into that path, then every command verbatim, in order.
C7_ScriptLayout ==
  /\ wrapped # << >> => ScriptOf(wrapped[1], wrapped[2], wrapped[3])
  /\ \A i \in 1..Len(all_build_scripts) :
       ScriptOf(all_build_scripts[i][1], all_build_scripts[i][2], all_build_scripts[i][3])

\* C10: raw_build_evaluation evaluates every script in order, writing script i to
\* /src/build.sh before compile runs for it and after script i-1 is done; a
\* failing compile skips nothing; the report has, for every script's working
\* directory, the script's text, the artifacts found after its build and the
\* originating tuple.
C10_EveryScriptEvaluated ==
  /\ \A j \in 1..Len(log) :
       /\ log[j][1] = << "write", "compile", "collect" >>[((j - 1) % 3) + 1]
       /\ log[j][2] = ((j - 1) \div 3) + 1
  /\ pc = "compile" => build_sh = all_build_scripts[cur][1]
  /\ pc = "returned" =>
       /\ Len(log) = 3 * Len(all_build_scripts)
       /\ DOMAIN build_results = { all_build_scripts[i][2] : i \in 1..Len(all_build_scripts) }
       /\ \A i \in 1..Len(all_build_scripts) :
            LET entry == build_results[all_build_scripts[i][2]]
            IN  /\ entry["build-script"] = all_build_scripts[i][1]
                /\ entry["executables-build"] = found[i]
                /\ entry["auto-build-setup"] = all_build_scripts[i]

\* C10's case: the first compile failed, and the report still has the entries of
\* the first and of the later scripts
C10_Witness ==
  /\ pc = "returned"
  /\ Len(all_build_scripts) = 3
  /\ log[2] = << "compile", 1, "CalledProcessError" >>
  /\ log[5] = << "compile", 2, "exit 0" >>
  /\ Len(found[2]["static-libs"]) = 1
  /\ all_build_scripts[3][2] \in DOMAIN build_results

====
